---------------------------- MODULE Spec2Model ----------------------------
(***************************************************************************)
(* pitch-tuner as state machines.                                          *)
(*                                                                         *)
(* Spec: the usePitchDetection hook (the version with the pitch hold,      *)
(* src/unnamed/part_001): the React state it exposes, its refs, the        *)
(* start() invocations that are awaiting the audio setup, the              *)
(* animation-frame callbacks that are scheduled, and the audio setups that *)
(* were acquired and not cleaned up.  The component that uses the hook     *)
(* stays mounted.                                                          *)
(*                                                                         *)
(* SpecNote: frequencyToNote and noteToFrequency of src/lib/audio.ts,      *)
(* called on their own.                                                    *)
(*                                                                         *)
(* SpecPitch: detectPitch and autoCorrelate of src/lib/pitch.ts, called on *)
(* short buffers.                                                          *)
(***************************************************************************)
EXTENDS Integers, Sequences, FiniteSets, TLC

(***************************************************************************)
(* Bounds of the model.                                                    *)
(***************************************************************************)
\* start() is called at most MaxStarts times in a behaviour
MaxStarts == 3

(***************************************************************************)
(* Program constants.                                                      *)
(***************************************************************************)
DEFAULT_REFERENCE_A4 == 440
MIN_REFERENCE_A4 == 432
MAX_REFERENCE_A4 == 446
PITCH_HOLD_FRAMES == 10
MIN_PITCH_HZ == 40
MAX_PITCH_HZ == 1200
MIN_FREQUENCY == 20
MAX_FREQUENCY == 5000

(***************************************************************************)
(* JavaScript numbers: the integers, and three values that are not:        *)
(* NaN, which every comparison answers false for, and the two infinities.  *)
(***************************************************************************)
Infinity == 10^6
NegInfinity == -(10^6)
NaN == 10^6 + 1

isFinite(x) == x # NaN /\ x # Infinity /\ x # NegInfinity

\* a < b and a > b of JavaScript
Lt(a, b) == a # NaN /\ b # NaN /\ a < b
Gt(a, b) == a # NaN /\ b # NaN /\ a > b

\* Math.min and Math.max: NaN when either argument is NaN
MathMin(a, b) == IF a = NaN \/ b = NaN THEN NaN ELSE IF a < b THEN a ELSE b
MathMax(a, b) == IF a = NaN \/ b = NaN THEN NaN ELSE IF a > b THEN a ELSE b

(***************************************************************************)
(* Values.                                                                 *)
(***************************************************************************)
\* null of a PitchResult, of an AudioError, of an id
NoPitch == <<>>
NoError == "none"
Null == 0

\* a PitchResult: the detected frequency and the reference pitch its
\* noteInfo was computed against
PitchResult(frequency, referenceA4) == <<frequency, referenceA4>>

TunerStates == {"idle", "listening", "active", "error"}
AudioErrors == {"permission-denied", "not-found", "not-supported", "unknown"}


(***************************************************************************)
(* Inputs the environment chooses.                                         *)
(***************************************************************************)
\* what autoCorrelate hands to detectPitch: the -1 sentinel, a frequency of
\* the accepted range and one above it
Frequencies == {-1, MAX_PITCH_HZ, MAX_PITCH_HZ + 1}

\* arguments of setReferenceA4
HzInputs == {1, MIN_REFERENCE_A4, MAX_REFERENCE_A4, 500, NaN}

\* what getUserMedia (or the AudioContext) can throw inside setupAudio: a
\* DOMException by its name, or something that is no DOMException; and
\* "unsupported", the browser lacking the audio APIs
SetupFailures == {"NotAllowedError", "PermissionDeniedError", "NotFoundError",
                  "DevicesNotFoundError", "NotSupportedError", "AbortError",
                  "not-a-DOMException", "unsupported"}

(***************************************************************************)
(* lib/pitch.ts and lib/audio.ts, as far as the hook depends on them.      *)
(***************************************************************************)
\* frequencyToNote building a NoteInfo of whatever it is given
frequencyToNoteAcceptsAll(frequency) == TRUE

\* frequencyToNote's range check: whether a NoteInfo is built at all
frequencyToNoteAccepts(frequency) ==
    ~(Lt(frequency, MIN_FREQUENCY) \/ Gt(frequency, MAX_FREQUENCY) \/ ~isFinite(frequency))

\* detectPitch, given the frequency autoCorrelate found in the buffer
detectPitch(frequency, referenceA4) ==
    IF Lt(frequency, MIN_PITCH_HZ) \/ Gt(frequency, MAX_PITCH_HZ)
    THEN NoPitch
    ELSE IF ~frequencyToNoteAccepts(frequency)
         THEN NoPitch
         ELSE PitchResult(frequency, referenceA4)

\* mapMediaError on what was thrown
mapMediaError(thrown) ==
    CASE thrown \in {"NotAllowedError", "PermissionDeniedError"} -> "permission-denied"
      [] thrown \in {"NotFoundError", "DevicesNotFoundError"} -> "not-found"
      [] thrown = "NotSupportedError" -> "not-supported"
      [] OTHER -> "unknown"

\* the `type` of the object setupAudio rejects with
setupAudioRejection(failure) ==
    IF failure = "unsupported" THEN "not-supported" ELSE mapMediaError(failure)

(***************************************************************************)
(* The state of the hook.                                                  *)
(***************************************************************************)
VARIABLES
    state,              \* useState: TunerState
    error,              \* useState: AudioError | null
    pitch,              \* useState: PitchResult | null
    referenceA4,        \* useState: number
    audioRef,           \* the id of the AudioSetupResult held, or Null
    detectorRef,        \* whether a detector is held
    audioDataRef,       \* whether a sample buffer is held
    animationFrameRef,  \* the id of an animation frame request, or Null
    referenceA4Ref,
    isRunningRef,
    lastPitchRef,
    holdCounterRef,
    started,            \* how many times start() was called
    awaitingSetup,      \* the start() invocations suspended at `await setupAudio()`
    awaitingResume,     \* those suspended at `await audio.audioContext.resume()`
    frames,             \* the animation frame requests that will call updatePitch
    live,               \* the audio setups acquired and not cleaned up
    missedTicks,        \* history: the no-detection ticks since the last
                        \* detection tick, or -1 when the hold state was reset
    detectedPitch,      \* history: the result of that detection tick, until
                        \* the hold has expired
    call                \* the call in progress when the library is exercised
                        \* on its own, without the hook: NoCall under the hook

reading == <<state, error, pitch>>
refs == <<audioRef, detectorRef, audioDataRef, animationFrameRef, isRunningRef,
          lastPitchRef, holdCounterRef>>
hook == <<state, error, pitch, referenceA4, audioRef, detectorRef, audioDataRef,
          animationFrameRef, referenceA4Ref, isRunningRef, lastPitchRef,
          holdCounterRef, started, awaitingSetup, awaitingResume, frames, live,
          missedTicks, detectedPitch>>
vars == <<hook, call>>

NoCall == [op |-> "none"]

\* the hook as useState and useRef construct it
Mounted ==
    /\ state = "idle"
    /\ error = NoError
    /\ pitch = NoPitch
    /\ referenceA4 = DEFAULT_REFERENCE_A4
    /\ audioRef = Null
    /\ detectorRef = FALSE
    /\ audioDataRef = FALSE
    /\ animationFrameRef = Null
    /\ referenceA4Ref = DEFAULT_REFERENCE_A4
    /\ isRunningRef = FALSE
    /\ lastPitchRef = NoPitch
    /\ holdCounterRef = 0
    /\ started = 0
    /\ awaitingSetup = {}
    /\ awaitingResume = {}
    /\ frames = {}
    /\ live = {}
    /\ missedTicks = -1
    /\ detectedPitch = NoPitch

Init ==
    /\ Mounted
    /\ call = NoCall

(***************************************************************************)
(* requestAnimationFrame and cancelAnimationFrame.  Request ids are only   *)
(* ever compared with animationFrameRef, which every request overwrites,   *)
(* so the id of a request that has fired or was cancelled is used again.   *)
(***************************************************************************)
requestAnimationFrame(scheduled) ==
    CHOOSE id \in 1..(Cardinality(scheduled) + 1) :
        /\ id \notin scheduled
        /\ \A smaller \in 1..(id - 1) : smaller \in scheduled

cancelAnimationFrame(scheduled, id) == scheduled \ {id}

\* cleanupAudio(result): the tracks stopped, the context closed
cleanupAudio(acquired, result) == acquired \ {result}

(***************************************************************************)
(* stopInternal: the refs it leaves behind.                                *)
(***************************************************************************)
stopInternal ==
    [isRunningRef |-> FALSE,
     frames |-> IF animationFrameRef # Null
                THEN cancelAnimationFrame(frames, animationFrameRef)
                ELSE frames,
     animationFrameRef |-> Null,
     live |-> cleanupAudio(live, audioRef),
     audioRef |-> Null,
     detectorRef |-> FALSE,
     audioDataRef |-> FALSE,
     lastPitchRef |-> NoPitch,
     holdCounterRef |-> 0]

\* the refs as they are, in the shape stopInternal returns them
currentRefs ==
    [isRunningRef |-> isRunningRef,
     frames |-> frames,
     animationFrameRef |-> animationFrameRef,
     live |-> live,
     audioRef |-> audioRef,
     detectorRef |-> detectorRef,
     audioDataRef |-> audioDataRef,
     lastPitchRef |-> lastPitchRef,
     holdCounterRef |-> holdCounterRef]

\* the refs stopInternal writes become r
SetRefs(r) ==
    /\ isRunningRef' = r.isRunningRef
    /\ frames' = r.frames
    /\ animationFrameRef' = r.animationFrameRef
    /\ live' = r.live
    /\ audioRef' = r.audioRef
    /\ detectorRef' = r.detectorRef
    /\ audioDataRef' = r.audioDataRef
    /\ lastPitchRef' = r.lastPitchRef
    /\ holdCounterRef' = r.holdCounterRef

(***************************************************************************)
(* stop()                                                                  *)
(***************************************************************************)
stop ==
    /\ SetRefs(stopInternal)
    /\ pitch' = NoPitch
    /\ state' = "idle"
    /\ error' = NoError
    /\ missedTicks' = -1
    /\ detectedPitch' = NoPitch
    /\ UNCHANGED <<referenceA4, referenceA4Ref, started, awaitingSetup, awaitingResume>>

(***************************************************************************)
(* start(), up to its `await setupAudio()`                                 *)
(***************************************************************************)
\* start() that never stops what runs
startWithoutStopping(running) == FALSE

\* "If already running, stop first"
startStopsFirst(running) == running

start ==
    /\ started < MaxStarts
    /\ SetRefs([(IF startStopsFirst(isRunningRef) THEN stopInternal ELSE currentRefs)
                    EXCEPT !.isRunningRef = TRUE])
    /\ error' = NoError
    /\ state' = "listening"
    /\ started' = started + 1
    /\ awaitingSetup' = awaitingSetup \cup {started + 1}
    /\ missedTicks' = -1
    /\ detectedPitch' = NoPitch
    /\ UNCHANGED <<pitch, referenceA4, referenceA4Ref, awaitingResume>>

(***************************************************************************)
(* start(), after its awaits: the audio is stored and the loop started     *)
(***************************************************************************)
startCompletes(id) ==
    /\ audioRef' = id
    /\ detectorRef' = TRUE
    /\ audioDataRef' = TRUE
    /\ animationFrameRef' = requestAnimationFrame(frames)
    /\ frames' = frames \cup {requestAnimationFrame(frames)}
    /\ UNCHANGED <<state, error, pitch, referenceA4, referenceA4Ref, isRunningRef,
                   lastPitchRef, holdCounterRef, started, missedTicks, detectedPitch>>

\* setupAudio() resolves; an AudioContext that is suspended is resumed first
setupResolves(id, suspended) ==
    /\ id \in awaitingSetup
    /\ awaitingSetup' = awaitingSetup \ {id}
    /\ IF suspended
       THEN /\ awaitingResume' = awaitingResume \cup {id}
            /\ live' = live \cup {id}
            /\ UNCHANGED <<state, error, pitch, referenceA4, referenceA4Ref, refs,
                           started, frames, missedTicks, detectedPitch>>
       ELSE /\ live' = live \cup {id}
            /\ startCompletes(id)
            /\ UNCHANGED awaitingResume

resumeResolves(id) ==
    /\ id \in awaitingResume
    /\ awaitingResume' = awaitingResume \ {id}
    /\ startCompletes(id)
    /\ UNCHANGED <<awaitingSetup, live>>

(***************************************************************************)
(* start(), its catch block                                                *)
(***************************************************************************)
\* a catch block that trusts the thing thrown to have a type
audioErrorOfAsIs(type) == type

\* (err as { type: AudioError }).type || 'unknown'; type is "" when the
\* thing thrown has none
audioErrorOf(type) == IF type = "" THEN "unknown" ELSE type

startCatches(type) ==
    /\ SetRefs(stopInternal)
    /\ error' = audioErrorOf(type)
    /\ state' = "error"
    /\ missedTicks' = -1
    /\ detectedPitch' = NoPitch
    /\ UNCHANGED <<pitch, referenceA4, referenceA4Ref, started>>

\* setupAudio() rejects
setupRejects(id, failure) ==
    /\ id \in awaitingSetup
    /\ awaitingSetup' = awaitingSetup \ {id}
    /\ startCatches(setupAudioRejection(failure))
    /\ UNCHANGED awaitingResume

\* audioContext.resume() rejects, with a DOMException: no `type`
resumeRejects(id) ==
    /\ id \in awaitingResume
    /\ awaitingResume' = awaitingResume \ {id}
    /\ startCatches("")
    /\ UNCHANGED awaitingSetup

(***************************************************************************)
(* updatePitch: one animation frame callback                               *)
(***************************************************************************)
\* a tick that goes on to read the frame whatever the refs hold
noFrameAvailableUnchecked(audio, detector, audioData) == FALSE

\* `if (!audio || !detector || !audioData)`: no frame can be read
noFrameAvailable(audio, detector, audioData) ==
    audio = Null \/ ~detector \/ ~audioData

\* a hold that gives up one tick early
stillHoldingOneLess(holdCounter) == holdCounter > 1

\* `else if (holdCounterRef.current > 0)`
stillHolding(holdCounter) == holdCounter > 0

\* a detection that shows the pitch and forgets to refill the hold budget
updateHoldNoRefill(result, lastPitch, holdCounter) ==
    IF result # NoPitch
    THEN [lastPitchRef |-> result,
          holdCounterRef |-> holdCounter,
          pitch |-> result,
          state |-> "active"]
    ELSE IF holdCounter > 0
         THEN [lastPitchRef |-> lastPitch,
               holdCounterRef |-> holdCounter - 1,
               pitch |-> lastPitch,
               state |-> "active"]
         ELSE [lastPitchRef |-> NoPitch,
               holdCounterRef |-> holdCounter,
               pitch |-> NoPitch,
               state |-> "listening"]

\* the three branches on the result of detectPitch
updateHold(result, lastPitch, holdCounter) ==
    IF result # NoPitch
    THEN [lastPitchRef |-> result,
          holdCounterRef |-> PITCH_HOLD_FRAMES,
          pitch |-> result,
          state |-> "active"]
    ELSE IF stillHolding(holdCounter)
         THEN [lastPitchRef |-> lastPitch,
               holdCounterRef |-> holdCounter - 1,
               pitch |-> lastPitch,
               state |-> "active"]
         ELSE [lastPitchRef |-> NoPitch,
               holdCounterRef |-> holdCounter,
               pitch |-> NoPitch,
               state |-> "listening"]

\* the history of no-detection ticks, counted up to one past the hold budget
countMissed(result, missed) ==
    IF result # NoPitch
    THEN 0
    ELSE IF missed = -1 \/ missed > PITCH_HOLD_FRAMES THEN missed ELSE missed + 1

trackDetected(result, missed, detected) ==
    IF result # NoPitch
    THEN result
    ELSE IF missed >= PITCH_HOLD_FRAMES THEN NoPitch ELSE detected

\* a tick that does not look at isRunningRef
tickNeverReturnsEarly(running) == FALSE

\* `if (!isRunningRef.current) return;`
tickReturnsEarly(running) == ~running

\* what the try block does when getFloatTimeDomainData or detectPitch throws:
\* the catch block logs, and the refs and the reading are as they were
tickCaught ==
    [lastPitchRef |-> lastPitchRef,
     holdCounterRef |-> holdCounterRef,
     pitch |-> pitch,
     state |-> state]

updatePitch(frame, frequency, fault) ==
    /\ frame \in frames
    /\ LET fired == frames \ {frame}
           result == detectPitch(frequency, referenceA4Ref)
       IN  IF tickReturnsEarly(isRunningRef)
           THEN /\ frames' = fired
                /\ UNCHANGED <<reading, refs, missedTicks, detectedPitch>>
           ELSE IF noFrameAvailable(audioRef, detectorRef, audioDataRef)
           THEN /\ animationFrameRef' = requestAnimationFrame(fired)
                /\ frames' = fired \cup {requestAnimationFrame(fired)}
                /\ UNCHANGED <<reading, audioRef, detectorRef, audioDataRef,
                               isRunningRef, lastPitchRef, holdCounterRef, missedTicks, detectedPitch>>
           ELSE /\ LET next == IF fault
                               THEN tickCaught
                               ELSE updateHold(result, lastPitchRef, holdCounterRef)
                   IN  /\ lastPitchRef' = next.lastPitchRef
                       /\ holdCounterRef' = next.holdCounterRef
                       /\ pitch' = next.pitch
                       /\ state' = next.state
                /\ missedTicks' = IF fault THEN missedTicks
                                  ELSE countMissed(result, missedTicks)
                /\ detectedPitch' = IF fault THEN detectedPitch
                                    ELSE trackDetected(result, missedTicks, detectedPitch)
                /\ animationFrameRef' = requestAnimationFrame(fired)
                /\ frames' = fired \cup {requestAnimationFrame(fired)}
                /\ UNCHANGED <<error, audioRef, detectorRef, audioDataRef, isRunningRef>>
    /\ UNCHANGED <<referenceA4, referenceA4Ref, started, awaitingSetup, awaitingResume, live>>

(***************************************************************************)
(* setReferenceA4(hz), and the effect that copies the state into the ref   *)
(***************************************************************************)
clampReferenceA4(hz) == MathMax(MIN_REFERENCE_A4, MathMin(MAX_REFERENCE_A4, hz))

setReferenceA4(hz) ==
    /\ referenceA4' = clampReferenceA4(hz)
    /\ UNCHANGED <<reading, refs, referenceA4Ref, started, awaitingSetup,
                   awaitingResume, frames, live, missedTicks, detectedPitch>>

\* useEffect(() => { referenceA4Ref.current = referenceA4 }, [referenceA4])
syncReferenceA4 ==
    /\ referenceA4Ref # referenceA4
    /\ referenceA4Ref' = referenceA4
    /\ UNCHANGED <<reading, refs, referenceA4, started, awaitingSetup,
                   awaitingResume, frames, live, missedTicks, detectedPitch>>

(***************************************************************************)
(* The specification: the commands of the host, the completions of the     *)
(* awaited promises and the animation frames, in any order.                *)
(***************************************************************************)
\* a step of the hook: the library is not called on its own meanwhile
Hook(step) == step /\ UNCHANGED call

Next ==
    \/ Hook(start)
    \/ Hook(stop)
    \/ \E hz \in HzInputs : Hook(setReferenceA4(hz))
    \/ Hook(syncReferenceA4)
    \/ \E id \in awaitingSetup, suspended \in BOOLEAN : Hook(setupResolves(id, suspended))
    \/ \E id \in awaitingSetup, failure \in SetupFailures : Hook(setupRejects(id, failure))
    \/ \E id \in awaitingResume : Hook(resumeResolves(id))
    \/ \E id \in awaitingResume : Hook(resumeRejects(id))
    \/ \E frame \in frames, frequency \in Frequencies :
           Hook(updatePitch(frame, frequency, FALSE))
    \/ \E frame \in frames : Hook(updatePitch(frame, NaN, TRUE))

Spec == Init /\ [][Next]_vars

(***************************************************************************)
(* The same hook with the animation frames told apart and delivered: the   *)
(* browser calls the callback of a requested frame with the time of that   *)
(* frame, and a frame that was requested and not cancelled is eventually   *)
(* delivered.  `call` holds the callback last made; the parity of the      *)
(* frame stands for its time, so that a tick is a step even when           *)
(* updatePitch leaves the hook as it was.                                  *)
(***************************************************************************)
frameTime == IF call.op = "updatePitch" THEN call.time ELSE 0

\* the browser calls updatePitch(time) for a requested frame
Callback(step) ==
    /\ step
    /\ call' = [op |-> "updatePitch", time |-> 1 - frameTime]

Tick ==
    \/ \E frame \in frames, frequency \in Frequencies :
           Callback(updatePitch(frame, frequency, FALSE))
    \/ \E frame \in frames : Callback(updatePitch(frame, NaN, TRUE))

NextLive ==
    \/ Hook(start)
    \/ Hook(stop)
    \/ \E hz \in HzInputs : Hook(setReferenceA4(hz))
    \/ Hook(syncReferenceA4)
    \/ \E id \in awaitingSetup, suspended \in BOOLEAN : Hook(setupResolves(id, suspended))
    \/ \E id \in awaitingSetup, failure \in SetupFailures : Hook(setupRejects(id, failure))
    \/ \E id \in awaitingResume : Hook(resumeResolves(id))
    \/ \E id \in awaitingResume : Hook(resumeRejects(id))
    \/ Tick

SpecLive == Init /\ [][NextLive]_vars /\ WF_vars(Tick)

TypeOK ==
    /\ state \in TunerStates
    /\ error \in AudioErrors \cup {NoError}
    /\ holdCounterRef \in 0..PITCH_HOLD_FRAMES
    /\ started \in 0..MaxStarts
    /\ awaitingSetup \subseteq 1..started
    /\ awaitingResume \subseteq 1..started
    /\ live \subseteq 1..started
    /\ audioRef \in 0..started
    /\ missedTicks \in -1..(PITCH_HOLD_FRAMES + 1)

(***************************************************************************)
(* C1.  The hold of the tick loop.                                         *)
(***************************************************************************)
\* C1, as claimed: after a detection tick followed by no-detection ticks
\* only, the first PITCH_HOLD_FRAMES - 1 of them report Active with the
\* detected pitch, and the next one reports Listening with no pitch.
HoldAsClaimed ==
    /\ missedTicks \in 0..(PITCH_HOLD_FRAMES - 1) =>
           state = "active" /\ pitch = detectedPitch /\ pitch # NoPitch
    /\ missedTicks = PITCH_HOLD_FRAMES =>
           state = "listening" /\ pitch = NoPitch

\* C1, amended: after a detection tick followed by no-detection ticks only,
\* each of the first PITCH_HOLD_FRAMES of them reports Active with the
\* detected pitch, and every one after them reports Listening with no pitch.
HoldBehaviour ==
    /\ missedTicks \in 0..PITCH_HOLD_FRAMES =>
           state = "active" /\ pitch = detectedPitch /\ pitch # NoPitch
    /\ missedTicks = PITCH_HOLD_FRAMES + 1 =>
           state = "listening" /\ pitch = NoPitch

\* the last tick of the hold has reported Active, and the hold budget is spent
HoldLastTick ==
    /\ missedTicks = PITCH_HOLD_FRAMES
    /\ holdCounterRef = 0
    /\ state = "active"

(***************************************************************************)
(* C2.  A note is exposed only in Active.                                  *)
(***************************************************************************)
\* C2: whenever the exposed pitch is not null, the exposed state is
\* 'active'.
NoteOnlyInActive == pitch # NoPitch => state = "active"

(***************************************************************************)
(* C3.  One tick loop.                                                     *)
(***************************************************************************)
\* C3: while the hook is running, at most one animation frame callback of
\* updatePitch is scheduled, so at most one self-rescheduling chain is live.
AtMostOneTickLoop == isRunningRef => Cardinality(frames) <= 1

(***************************************************************************)
(* Steps, told by the action that takes them.                              *)
(***************************************************************************)
\* a frame can be read: the audio setup, the detector and the buffer are held
FrameReadable == audioRef # Null /\ detectorRef /\ audioDataRef

\* a call of updatePitch; one that throws has found no frequency
TickStep ==
    \/ \E frame \in frames, frequency \in Frequencies :
           updatePitch(frame, frequency, FALSE)
    \/ \E frame \in frames : updatePitch(frame, NaN, TRUE)

\* a tick, while running, whose detectPitch is handed a frequency of the
\* accepted range and returns a result
DetectionTickStep ==
    /\ isRunningRef
    /\ FrameReadable
    /\ \E frame \in frames, frequency \in Frequencies :
           /\ frequency >= MIN_PITCH_HZ
           /\ frequency <= MAX_PITCH_HZ
           /\ updatePitch(frame, frequency, FALSE)

\* a tick, while running, in which reading the frame or detectPitch throws
FaultTickStep ==
    /\ isRunningRef
    /\ FrameReadable
    /\ \E frame \in frames : updatePitch(frame, NaN, TRUE)

\* the await of a start() ends in its catch block
SetupFailsStep ==
    \/ \E id \in awaitingSetup, failure \in SetupFailures : setupRejects(id, failure)
    \/ \E id \in awaitingResume : resumeRejects(id)

\* the await of a start() ends well
SetupCompletesStep ==
    \/ \E id \in awaitingSetup, suspended \in BOOLEAN : setupResolves(id, suspended)
    \/ \E id \in awaitingResume : resumeResolves(id)

(***************************************************************************)
(* C4.  The hold counter.                                                  *)
(***************************************************************************)
\* C4: holdCounterRef stays within 0..PITCH_HOLD_FRAMES, it increases in no
\* step but a tick that produced a detection, and it is PITCH_HOLD_FRAMES
\* right after every such tick.
HoldCounterLaw ==
    /\ [](holdCounterRef \in 0..PITCH_HOLD_FRAMES)
    /\ [][/\ holdCounterRef' > holdCounterRef => DetectionTickStep
          /\ holdCounterRef' # PITCH_HOLD_FRAMES => ~DetectionTickStep]_vars

\* a detection tick has just set the hold budget
HoldRefilled ==
    /\ holdCounterRef = PITCH_HOLD_FRAMES
    /\ missedTicks = 0
    /\ state = "active"
    /\ pitch # NoPitch

(***************************************************************************)
(* C5.  stop().                                                            *)
(***************************************************************************)
\* C5: stop() leaves the hook Idle with no pitch, no error and the hold
\* state reset, and from Idle the exposed state and pitch change in no step
\* but a start().
StopStaysIdle ==
    [][/\ stop => /\ state' = "idle" /\ pitch' = NoPitch /\ error' = NoError
                  /\ lastPitchRef' = NoPitch /\ holdCounterRef' = 0
       /\ (state = "idle" /\ (state' # "idle" \/ pitch' # NoPitch)) => start]_vars

(***************************************************************************)
(* C6.  Leaving Error.                                                     *)
(***************************************************************************)
\* C6, as claimed: from 'error' the exposed state changes in no step but a
\* start(), which makes it 'listening'.
ErrorLeftOnlyByStart ==
    [][/\ (state = "error" /\ state' # "error") => start
       /\ (state = "error" /\ start) => state' = "listening"]_vars

\* C6, amended: from 'error' the exposed state changes in no step but a
\* start(), which makes it 'listening', or a stop(), which makes it 'idle';
\* setReferenceA4(), ticks and completions of earlier starts leave it 'error'.
ErrorLeftOnlyByCommand ==
    [][/\ (state = "error" /\ state' # "error") => (start \/ stop)
       /\ (state = "error" /\ start) => state' = "listening"
       /\ (state = "error" /\ stop) => state' = "idle"
       /\ (state = "error" /\ (TickStep \/ SetupCompletesStep \/ SetupFailsStep))
              => state' = "error"]_vars

\* in 'error', an earlier start() has completed and its tick is scheduled
ErrorWithTickScheduled ==
    /\ state = "error"
    /\ FrameReadable
    /\ frames # {}

(***************************************************************************)
(* C7.  Entering Error.                                                    *)
(***************************************************************************)
\* the AudioError the hook is to show for what the setup failed with
KindOfFailure(failure) ==
    CASE failure = "NotAllowedError" -> "permission-denied"
      [] failure = "PermissionDeniedError" -> "permission-denied"
      [] failure = "NotFoundError" -> "not-found"
      [] failure = "DevicesNotFoundError" -> "not-found"
      [] failure = "NotSupportedError" -> "not-supported"
      [] failure = "unsupported" -> "not-supported"
      [] failure = "AbortError" -> "unknown"
      [] failure = "not-a-DOMException" -> "unknown"

\* C7: the exposed state becomes 'error' only in a step in which the setup
\* awaited by a start() fails; that step leaves the error field at the kind
\* of the failure and the hold state reset; no tick makes the state 'error'
\* or changes the error field.
ErrorOnlyFromSetup ==
    [][/\ (state # "error" /\ state' = "error") => SetupFailsStep
       /\ \A id \in awaitingSetup \ awaitingSetup', failure \in SetupFailures :
              setupRejects(id, failure) =>
                  /\ state' = "error"
                  /\ error' = KindOfFailure(failure)
                  /\ lastPitchRef' = NoPitch /\ holdCounterRef' = 0
       /\ \A id \in awaitingResume \ awaitingResume' :
              resumeRejects(id) =>
                  /\ state' = "error"
                  /\ error' = "unknown"
                  /\ lastPitchRef' = NoPitch /\ holdCounterRef' = 0
       /\ (error' # error \/ (state' = "error" /\ state # "error")) => ~TickStep]_vars

\* a failed setup has put the hook in Error with the kind 'unknown', while
\* an audio setup that was acquired is still open and held by no ref
ErrorFromResume ==
    /\ state = "error"
    /\ error = "unknown"
    /\ live # {}
    /\ audioRef = Null

(***************************************************************************)
(* C8.  A fault in a tick.                                                 *)
(***************************************************************************)
\* C8: a tick that throws while running schedules the next tick and has the
\* effect of a no-detection tick: the hold counter decremented and the held
\* pitch shown while the counter is positive, Listening with no pitch when
\* it is zero.
FaultIsNoDetection ==
    [][FaultTickStep =>
           /\ Cardinality(frames') = Cardinality(frames)
           /\ IF holdCounterRef > 0
              THEN /\ holdCounterRef' = holdCounterRef - 1
                   /\ pitch' = lastPitchRef
                   /\ state' = "active"
              ELSE /\ holdCounterRef' = 0
                   /\ pitch' = NoPitch
                   /\ state' = "listening"]_vars

(***************************************************************************)
(* C9.  The reference pitch.                                               *)
(***************************************************************************)
\* C9: the exposed referenceA4 and referenceA4Ref, the value the tick reads,
\* lie within [432, 446].
ReferenceWithinBounds ==
    /\ referenceA4 \in MIN_REFERENCE_A4..MAX_REFERENCE_A4
    /\ referenceA4Ref \in MIN_REFERENCE_A4..MAX_REFERENCE_A4

(***************************************************************************)
(* C10.  Ticks that read no frame.                                         *)
(***************************************************************************)
\* C10: a tick that fires while running when no frame can be read leaves the
\* state, the pitch, the error, the hold counter and the held pitch as they
\* were and schedules exactly the next tick; a tick that fires while the hook
\* is not running changes nothing and schedules nothing.
NoFrameTickIsNoOp ==
    [][/\ (isRunningRef /\ ~FrameReadable) =>
              \A frame \in frames :
                  (\/ \E frequency \in Frequencies : updatePitch(frame, frequency, FALSE)
                   \/ updatePitch(frame, NaN, TRUE)) =>
                      /\ UNCHANGED <<state, pitch, error, holdCounterRef, lastPitchRef>>
                      /\ animationFrameRef' \notin frames \ {frame}
                      /\ frames' = (frames \ {frame}) \cup {animationFrameRef'}
       /\ ~isRunningRef =>
              \A frame \in frames :
                  (\/ \E frequency \in Frequencies : updatePitch(frame, frequency, FALSE)
                   \/ updatePitch(frame, NaN, TRUE)) =>
                      /\ UNCHANGED <<state, pitch, error, referenceA4, referenceA4Ref,
                                     refs, live, awaitingSetup, awaitingResume>>
                      /\ frames' = frames \ {frame}]_vars

\* a tick that could read no frame has scheduled the next one
NoFrameTickRescheduled ==
    /\ isRunningRef
    /\ audioRef = Null
    /\ animationFrameRef # Null
    /\ animationFrameRef \in frames

\* C16: right after the synchronous part of start(), the state is
\* Listening, the error is null, the last pitch is null and the hold counter
\* is 0, from wherever start() was called: Idle, Error, or a running
\* session that holds a pitch.
StartResetsHold ==
    [][started' # started =>
          (start => /\ state' = "listening"
                    /\ error' = NoError
                    /\ lastPitchRef' = NoPitch
                    /\ holdCounterRef' = 0)]_vars

\* start() has just been called over a session that showed a pitch
RestartedOverPitch ==
    /\ started > 1
    /\ state = "listening"
    /\ pitch # NoPitch
    /\ isRunningRef
    /\ lastPitchRef = NoPitch
    /\ holdCounterRef = 0

\* C21: no audio setup outlives its use.  When the hook is not running and
\* no start() is suspended at an await, every audio setup that was acquired
\* has been cleaned up; and at any time a setup that was acquired and is not
\* cleaned up is the one audioRef holds (or the one a start() that awaits
\* resume() is about to store there).
NoAudioOutlivesItsUse ==
    /\ (~isRunningRef /\ awaitingSetup = {} /\ awaitingResume = {}) => live = {}
    /\ \A acquired \in live : acquired = audioRef \/ acquired \in awaitingResume

\* C22: the exposed error and the exposed state agree in every reachable
\* state: state is "error" exactly when error is not null, whatever the
\* interleaving of start(), stop(), setup completions, failures and ticks.
ErrorAgreesWithState == (state = "error") <=> (error # NoError)

\* a start() failed while a later start() is still awaiting setupAudio()
ErrorWhileStartPending ==
    /\ state = "error"
    /\ error \in AudioErrors
    /\ awaitingSetup # {}

\* the hook is running with a live tick loop
Running == isRunningRef /\ FrameReadable /\ frames # {}

\* C23: a held reading always expires.  If from some point on the hook stays
\* running with a live tick loop (no start(), stop() or failure any more) and
\* no tick produces a detection, then, the frames being delivered, the
\* exposed reading eventually is Listening with no pitch and stays so.
HeldReadingExpires ==
    (<>[]Running /\ <>[][~DetectionTickStep]_vars)
        => <>[](state = "listening" /\ pitch = NoPitch)

\* what the code does guarantee: the same, when from some point on every
\* tick is one in which detectPitch ran and returned null
HeldReadingExpiresUnlessThrown ==
    (<>[]Running /\ <>[][~DetectionTickStep /\ ~FaultTickStep]_vars)
        => <>[](state = "listening" /\ pitch = NoPitch)

(***************************************************************************)
(* lib/audio.ts: the note mapper, called on its own.                       *)
(*                                                                         *)
(* A frequency is the number hz * 2^(tenths/12000): a whole number of      *)
(* hertz (or NaN, or an infinity), raised by a number of tenths of a cent. *)
(* What the mapper computes of a frequency is the logarithm of its ratio   *)
(* to the reference pitch, which is `tenths` itself when hz is the         *)
(* reference pitch.  Math.log2 and Math.pow are the exact functions here:  *)
(* the rounding error of the floating-point ones, some 10^-13 of a         *)
(* semitone, is left out.                                                  *)
(***************************************************************************)
NOTE_NAMES == <<"C", "C#", "D", "D#", "E", "F", "F#", "G", "G#", "A", "A#", "B">>
A4_MIDI == 69
SEMITONES_PER_OCTAVE == 12
CENTS_PER_SEMITONE == 100

TenthsPerSemitone == 10 * CENTS_PER_SEMITONE

Hz(hz) == [hz |-> hz, tenths |-> 0]
Raised(hz, tenths) == [hz |-> hz, tenths |-> tenths]

\* null of a NoteInfo
NoNote == [note |-> "null"]

\* floor(12000 * log2(20 / hz)) and floor(12000 * log2(5000 / hz)) for hz
\* from 432 to 446: where the two limits of frequencyToNote lie, in tenths
\* of a cent from hz (neither logarithm is a whole number of tenths)
Log2Of20 == <<-53196, -53236, -53276, -53316, -53356, -53395, -53435, -53474,
              -53514, -53553, -53592, -53631, -53670, -53709, -53748>>
Log2Of5000 == <<42393, 42353, 42313, 42274, 42234, 42194, 42155, 42115,
                42076, 42036, 41997, 41958, 41919, 41880, 41841>>

\* 12000 * Math.log2(limit / hz), rounded down
log2Tenths(limit, hz) ==
    IF limit = MIN_FREQUENCY
    THEN Log2Of20[hz - MIN_REFERENCE_A4 + 1]
    ELSE Log2Of5000[hz - MIN_REFERENCE_A4 + 1]

\* frequency < limit and frequency > limit, limit a whole number of hertz
below(frequency, limit) ==
    IF frequency.tenths = 0
    THEN Lt(frequency.hz, limit)
    ELSE frequency.tenths <= log2Tenths(limit, frequency.hz)

above(frequency, limit) ==
    IF frequency.tenths = 0
    THEN Gt(frequency.hz, limit)
    ELSE frequency.tenths > log2Tenths(limit, frequency.hz)

\* 12000 * Math.log2(frequency / refA4)
log2Ratio(frequency, refA4) ==
    IF frequency.hz = refA4
    THEN frequency.tenths
    ELSE log2Tenths(frequency.hz, refA4) + frequency.tenths

\* n / d, d > 0, rounded to the nearest integer, away from zero at a tie
roundHalfAwayFromZero(n, d) ==
    IF n >= 0 THEN (2 * n + d) \div (2 * d) ELSE -((2 * (-n) + d) \div (2 * d))

\* Math.round(n / d), d > 0: the nearest integer, the one above at a tie
MathRound(n, d) == (2 * n + d) \div (2 * d)

\* a % b of JavaScript: the remainder has the sign of a
JsRem(a, b) == IF a >= 0 THEN a % b ELSE -((-a) % b)

\* the range check without its isFinite term
outOfRangeOfNumbers(frequency) ==
    \/ below(frequency, MIN_FREQUENCY)
    \/ above(frequency, MAX_FREQUENCY)

\* the range check of frequencyToNote
outOfRange(frequency) ==
    \/ below(frequency, MIN_FREQUENCY)
    \/ above(frequency, MAX_FREQUENCY)
    \/ ~isFinite(frequency.hz)

\* the octave without the offset that makes 60 the C of octave 4
octaveFromC0(midiNote) == midiNote \div SEMITONES_PER_OCTAVE

\* Math.floor(midiNote / SEMITONES_PER_OCTAVE) - 1
octaveOf(midiNote) == (midiNote \div SEMITONES_PER_OCTAVE) - 1

\* the deviation taken from the frequency to the note
centsOfNote(semitonesFromA4, nearestNoteFrequency) ==
    MathRound(nearestNoteFrequency.tenths - semitonesFromA4, 10)

\* Math.round(1200 * Math.log2(frequency / nearestNoteFrequency))
centsOfFrequency(semitonesFromA4, nearestNoteFrequency) ==
    MathRound(semitonesFromA4 - nearestNoteFrequency.tenths, 10)

frequencyToNote(frequency, refA4) ==
    IF outOfRange(frequency)
    THEN NoNote
    ELSE LET semitonesFromA4 == log2Ratio(frequency, refA4)
             midiNote == MathRound(A4_MIDI * TenthsPerSemitone + semitonesFromA4,
                                   TenthsPerSemitone)
             nearestNoteFrequency ==
                 Raised(refA4, (midiNote - A4_MIDI) * TenthsPerSemitone)
             cents == centsOfFrequency(semitonesFromA4, nearestNoteFrequency)
             noteIndex == JsRem(JsRem(midiNote, SEMITONES_PER_OCTAVE)
                                    + SEMITONES_PER_OCTAVE, SEMITONES_PER_OCTAVE)
             octave == octaveOf(midiNote)
         IN  [note |-> NOTE_NAMES[noteIndex + 1],
              octave |-> octave,
              frequency |-> nearestNoteFrequency,
              cents |-> cents]

\* noteToFrequency numbering the octaves from C0 = 0
noteToFrequencyFromC0(note, octave, refA4) ==
    LET noteIndex == (CHOOSE i \in 1..Len(NOTE_NAMES) : NOTE_NAMES[i] = note) - 1
        midiNote == octave * SEMITONES_PER_OCTAVE + noteIndex
    IN  Raised(refA4, (midiNote - A4_MIDI) * TenthsPerSemitone)

noteToFrequency(note, octave, refA4) ==
    LET noteIndex == (CHOOSE i \in 1..Len(NOTE_NAMES) : NOTE_NAMES[i] = note) - 1
        midiNote == (octave + 1) * SEMITONES_PER_OCTAVE + noteIndex
    IN  Raised(refA4, (midiNote - A4_MIDI) * TenthsPerSemitone)

(***************************************************************************)
(* The calls made of the note mapper: frequencyToNote on a frequency,      *)
(* frequencyToNote on what noteToFrequency returned, and frequencyToNote   *)
(* again and again while the frequency rises a tenth of a cent at a time.  *)
(***************************************************************************)
\* a frequency rises at most MaxRaise times
MaxRaise == 1200

ReferencePitches == MIN_REFERENCE_A4..MAX_REFERENCE_A4
Octaves == -1..9

\* whole numbers of hertz, and what is no number of hertz
HzFrequencies == {NegInfinity, -1, 0, MIN_FREQUENCY - 1, MIN_FREQUENCY,
                  MAX_FREQUENCY, MAX_FREQUENCY + 1, Infinity, NaN}

\* from where a frequency starts rising, in tenths of a cent from the
\* reference pitch: under the 20 Hz limit, under a note below the reference
\* pitch, under the reference pitch, and under the 5000 Hz limit
RiseStarts == {-54000, -12600, -600, 41200}

NoteCalls ==
    {[op |-> "frequencyToNote", note |-> "", octave |-> 0, referenceA4 |-> r,
      frequency |-> f, info |-> NoNote, raised |-> 0] :
        r \in ReferencePitches,
        f \in {Hz(hz) : hz \in HzFrequencies}}
    \cup
    {[op |-> "frequencyToNote", note |-> "", octave |-> 0, referenceA4 |-> r,
      frequency |-> Raised(r, t), info |-> NoNote, raised |-> 0] :
        r \in ReferencePitches, t \in RiseStarts}
    \cup
    {[op |-> "noteToFrequency", note |-> NOTE_NAMES[i], octave |-> o,
      referenceA4 |-> r, frequency |-> Hz(0), info |-> NoNote, raised |-> 0] :
        i \in 1..Len(NOTE_NAMES), o \in Octaves, r \in ReferencePitches}

InitNote ==
    /\ Mounted
    /\ call \in NoteCalls

callNoteToFrequency ==
    /\ call.op = "noteToFrequency"
    /\ call' = [call EXCEPT
                  !.op = "frequencyToNote",
                  !.frequency = noteToFrequency(call.note, call.octave, call.referenceA4)]
    /\ UNCHANGED hook

callFrequencyToNote ==
    /\ call.op = "frequencyToNote"
    /\ call' = [call EXCEPT
                  !.op = "returned",
                  !.info = frequencyToNote(call.frequency, call.referenceA4)]
    /\ UNCHANGED hook

\* the next call, on a frequency a tenth of a cent higher
raiseFrequency ==
    /\ call.op = "returned"
    /\ call.note = ""
    /\ call.frequency.hz = call.referenceA4
    /\ call.raised < MaxRaise
    /\ LET frequency == Raised(call.frequency.hz, call.frequency.tenths + 1)
       IN  call' = [call EXCEPT
                      !.frequency = frequency,
                      !.info = frequencyToNote(frequency, call.referenceA4),
                      !.raised = @ + 1]
    /\ UNCHANGED hook

NextNote ==
    \/ callNoteToFrequency
    \/ callFrequencyToNote
    \/ raiseFrequency

SpecNote == InitNote /\ [][NextNote]_vars

\* C11: frequencyToNote returns null for a frequency that is zero or
\* negative, below 20 Hz, above 5000 Hz, NaN or infinite, whatever the
\* reference pitch, and a NoteInfo only for a finite frequency from 20 Hz
\* to 5000 Hz.
NullOutsideRange ==
    (call.op = "returned" /\ call.frequency.tenths = 0) =>
        LET hz == call.frequency.hz
        IN  (call.info = NoNote) <=>
                \/ hz \in {NaN, Infinity, NegInfinity}
                \/ hz <= 0
                \/ hz < 20
                \/ hz > 5000

\* frequencyToNote has returned null for NaN
NullForNaN ==
    /\ call.op = "returned"
    /\ call.frequency = Hz(NaN)
    /\ call.info = NoNote

\* C12: for each of the twelve note names, each octave and each reference
\* pitch from 432 to 446 for which noteToFrequency(note, octave, ref) lies
\* within 20 Hz .. 5000 Hz, frequencyToNote of that frequency under the same
\* reference pitch returns the same note and octave, and cents within 1 of 0.
RoundTrip ==
    (/\ call.op = "returned"
     /\ call.note # ""
     /\ ~below(call.frequency, 20)
     /\ ~above(call.frequency, 5000)) =>
        /\ call.info # NoNote
        /\ call.info.note = call.note
        /\ call.info.octave = call.octave
        /\ call.info.cents \in -1..1

\* the round trip of the lowest note within the range, E0 under 432 Hz
RoundTripOfE0 ==
    /\ call.op = "returned"
    /\ call.note = "E"
    /\ call.octave = 0
    /\ call.referenceA4 = 432
    /\ call.info # NoNote

\* C14: under one reference pitch and within the band of one nearest note,
\* the cents reported never decrease as the frequency rises; they are 0 at
\* the frequency of the note itself, at most 0 below it and at least 0
\* above it.
MonotonicCents ==
    /\ [](call.op = "returned" /\ call.frequency.hz = call.referenceA4
              /\ call.info # NoNote =>
            LET note == call.info.frequency.tenths
            IN  /\ call.frequency.tenths = note => call.info.cents = 0
                /\ call.frequency.tenths < note => call.info.cents <= 0
                /\ call.frequency.tenths > note => call.info.cents >= 0)
    /\ [][(/\ call.op = "returned" /\ call'.op = "returned"
           /\ call.info # NoNote /\ call'.info # NoNote
           /\ call'.frequency.tenths > call.frequency.tenths
           /\ call'.info.frequency = call.info.frequency) =>
              call'.info.cents >= call.info.cents]_vars

\* a rising frequency has entered the band of the next note, 50 cents
\* under it
BandEntered ==
    /\ call.op = "returned"
    /\ call.raised > 0
    /\ call.info # NoNote
    /\ call.info.cents = -50

\* C15: with m the number of the nearest note that frequencyToNote computed,
\* the note it returns is entry m mod 12 (which lies in 0..11) of the
\* chromatic table that starts at C, the octave is floor(m / 12) - 1, and a
\* frequency equal to the reference pitch is A, octave 4, cents 0.
NoteAndOctaveOfMidi ==
    (call.op = "returned" /\ call.info # NoNote) =>
        LET m == 69 + (call.info.frequency.tenths \div 1000)
            index == m % 12
        IN  /\ call.info.frequency.tenths % 1000 = 0
            /\ index \in 0..11
            /\ call.info.note = NOTE_NAMES[index + 1]
            /\ NOTE_NAMES[1] = "C"
            /\ call.info.octave = (m \div 12) - 1
            /\ call.frequency = Hz(call.referenceA4) =>
                   /\ call.info.note = "A"
                   /\ call.info.octave = 4
                   /\ call.info.cents = 0

\* frequencyToNote has been called on the reference pitch itself
ReferencePitchMapped ==
    /\ call.op = "returned"
    /\ call.frequency = Hz(call.referenceA4)
    /\ call.info # NoNote

\* n / d, d > 0, rounded to the nearest integer, to the even one at a tie
roundHalfToEven(n, d) ==
    LET low == n \div d
    IN  IF 2 * (n - low * d) < d THEN low
        ELSE IF 2 * (n - low * d) > d THEN low + 1
        ELSE IF low % 2 = 0 THEN low ELSE low + 1

\* what frequencyToNote rounded in the call that returned: the note number
\* 69 + semitonesFromA4 in thousandths, and the deviation in tenths of a cent
roundedNote == A4_MIDI * 1000 + call.frequency.tenths
roundedCents == call.frequency.tenths - call.info.frequency.tenths
midiNoteReturned == A4_MIDI + (call.info.frequency.tenths \div 1000)

NoteReturned ==
    /\ call.op = "returned"
    /\ call.frequency.hz = call.referenceA4
    /\ call.info # NoNote

\* C20 as claimed, in what it demands of each call: the two roundings of a
\* call are those of round-half-to-even, or both are those of
\* round-half-away-from-zero, whether the rounded value is negative or
\* positive.
TiesToEvenOrAwayFromZero ==
    NoteReturned =>
        \/ /\ midiNoteReturned = roundHalfToEven(roundedNote, 1000)
           /\ call.info.cents = roundHalfToEven(roundedCents, 10)
        \/ /\ midiNoteReturned = roundHalfAwayFromZero(roundedNote, 1000)
           /\ call.info.cents = roundHalfAwayFromZero(roundedCents, 10)

\* C20, amended: both roundings take the nearest integer and, at an exact
\* .5 tie, the one above it (towards +Infinity), for negative as well as
\* positive values.
TiesUpwards ==
    NoteReturned =>
        /\ 1000 * (2 * midiNoteReturned - 1) <= 2 * roundedNote
        /\ 2 * roundedNote < 1000 * (2 * midiNoteReturned + 1)
        /\ 10 * (2 * call.info.cents - 1) <= 2 * roundedCents
        /\ 2 * roundedCents < 10 * (2 * call.info.cents + 1)

\* a deviation of exactly -13.5 cents has been rounded
NegativeCentsTie ==
    /\ NoteReturned
    /\ roundedCents = -135

(***************************************************************************)
(* lib/pitch.ts: autoCorrelate and detectPitch, called on a buffer.        *)
(*                                                                         *)
(* A sample is a whole number of hundredths, 100 being 1.0, and a sum of   *)
(* products of samples a whole number of ten-thousandths.  A frequency is  *)
(* a ratio <<n, d>> of integers, d > 0, or <<n, 1>> with n NaN or an       *)
(* infinity.  The arithmetic is exact: the rounding of the floating-point  *)
(* sums is left out.                                                       *)
(***************************************************************************)
\* RMS_THRESHOLD = 0.01 and threshold = 0.2, in hundredths
RMS_THRESHOLD == 1
threshold == 20

\* -1, the initial maxVal, in ten-thousandths
MinusOne == -(100 * 100)

\* autoCorrelate's `return -1`
NoEstimate == <<-1, 1>>

abs(x) == IF x < 0 THEN -x ELSE x

RECURSIVE sumTo(_, _)
\* values[1] + ... + values[k]
sumTo(values, k) == IF k = 0 THEN 0 ELSE values[k] + sumTo(values, k - 1)

\* autoCorrelate without its silence gate
rmsNeverTooLow(buffer) == FALSE

\* rms < RMS_THRESHOLD, for rms = Math.sqrt(sum of val * val / SIZE): both
\* sides squared.  Of an empty buffer rms is NaN, which is not below.
rmsTooLow(buffer) ==
    sumTo([i \in 1..Len(buffer) |-> buffer[i] * buffer[i]], Len(buffer))
        < RMS_THRESHOLD * RMS_THRESHOLD * Len(buffer)

\* the two loops over the first and the last half of the buffer: index i of
\* the code is index i + 1 here
r1Of(buffer) ==
    LET SIZE == Len(buffer)
        found == {i \in 0..(SIZE - 1) : 2 * i < SIZE /\ abs(buffer[i + 1]) < threshold}
    IN  IF found = {} THEN 0 ELSE CHOOSE i \in found : \A j \in found : i <= j

r2Of(buffer) ==
    LET SIZE == Len(buffer)
        found == {i \in 1..(SIZE - 1) : 2 * i < SIZE /\ abs(buffer[SIZE - i + 1]) < threshold}
    IN  IF found = {} THEN SIZE - 1 ELSE SIZE - (CHOOSE i \in found : \A j \in found : i <= j)

\* buffer.slice(r1, r2)
slice(buffer, r1, r2) == SubSeq(buffer, r1 + 1, r2)

\* correlation[i] for i from 0 to trimmedSize - 1
correlationOf(trimmedBuffer) ==
    LET trimmedSize == Len(trimmedBuffer)
    IN  [i \in 0..(trimmedSize - 1) |->
            sumTo([j \in 1..(trimmedSize - i) |-> trimmedBuffer[j] * trimmedBuffer[j + i]],
                  trimmedSize - i)]

RECURSIVE firstDip(_, _, _)
\* while (d < trimmedSize - 1 && correlation[d] > correlation[d + 1]) d++
firstDip(correlation, trimmedSize, d) ==
    IF d < trimmedSize - 1 /\ correlation[d] > correlation[d + 1]
    THEN firstDip(correlation, trimmedSize, d + 1)
    ELSE d

RECURSIVE maxPosFrom(_, _, _, _, _)
\* the loop that looks for the maximum from lag i on
maxPosFrom(correlation, trimmedSize, i, maxVal, maxPos) ==
    IF i >= trimmedSize THEN maxPos
    ELSE IF correlation[i] > maxVal
         THEN maxPosFrom(correlation, trimmedSize, i + 1, correlation[i], i)
         ELSE maxPosFrom(correlation, trimmedSize, i + 1, maxVal, maxPos)

\* whether the peak found is no peak to interpolate around
peakAtBoundary(maxPos, trimmedSize) == maxPos < 1 \/ maxPos >= trimmedSize - 1

\* T0 as a ratio <<n, d>>, d > 0: maxPos - b / (2 * a) when a # 0, for
\* a = (x1 + x3 - 2 * x2) / 2 and b = (x3 - x1) / 2, and maxPos otherwise
refinedLag(correlation, maxPos) ==
    LET x1 == correlation[maxPos - 1]
        x2 == correlation[maxPos]
        x3 == correlation[maxPos + 1]
        twoA == x1 + x3 - 2 * x2
        twoB == x3 - x1
    IN  IF twoA = 0 THEN <<maxPos, 1>>
        ELSE IF twoA > 0 THEN <<2 * twoA * maxPos - twoB, 2 * twoA>>
        ELSE <<twoB - 2 * twoA * maxPos, -2 * twoA>>

\* sampleRate / T0 for T0 > 0
perLag(sampleRate, T0) ==
    IF isFinite(sampleRate) THEN <<sampleRate * T0[2], T0[1]>> ELSE <<sampleRate, 1>>

\* autoCorrelate, with what it computed on the way
autoCorrelate(buffer, sampleRate) ==
    LET r1 == r1Of(buffer)
        r2 == r2Of(buffer)
        trimmedBuffer == slice(buffer, r1, r2)
        trimmedSize == Len(trimmedBuffer)
        correlation == correlationOf(trimmedBuffer)
        d == firstDip(correlation, trimmedSize, 0)
        maxPos == maxPosFrom(correlation, trimmedSize, d, MinusOne, -1)
        T0 == refinedLag(correlation, maxPos)
        none == [exit |-> "rms", trimmedBuffer |-> <<>>, correlation |-> <<>>,
                 d |-> 0, maxPos |-> -1, frequency |-> NoEstimate]
    IN  IF rmsTooLow(buffer) THEN none
        ELSE IF trimmedSize < 2
        THEN [none EXCEPT !.exit = "trimmed", !.trimmedBuffer = trimmedBuffer]
        ELSE IF peakAtBoundary(maxPos, trimmedSize)
        THEN [none EXCEPT !.exit = "peak", !.trimmedBuffer = trimmedBuffer,
                          !.correlation = correlation, !.d = d, !.maxPos = maxPos]
        ELSE [exit |-> IF T0[1] <= 0 THEN "T0" ELSE "estimate",
              trimmedBuffer |-> trimmedBuffer, correlation |-> correlation,
              d |-> d, maxPos |-> maxPos,
              frequency |-> IF T0[1] <= 0 THEN NoEstimate ELSE perLag(sampleRate, T0)]

\* frequency < limit and frequency > limit of a ratio and a whole number
ratioBelow(frequency, limit) == frequency[1] \div limit < frequency[2]
ratioAbove(frequency, limit) == (frequency[1] + limit - 1) \div limit > frequency[2]

\* detectPitch after its call of autoCorrelate
pitchOfEstimate(frequency, refA4) ==
    IF frequency[2] = 1
    THEN IF detectPitch(frequency[1], refA4) = NoPitch
         THEN NoPitch
         ELSE PitchResult(frequency, refA4)
    ELSE IF ratioBelow(frequency, MIN_PITCH_HZ) \/ ratioAbove(frequency, MAX_PITCH_HZ)
         THEN NoPitch
         ELSE IF ratioBelow(frequency, MIN_FREQUENCY) \/ ratioAbove(frequency, MAX_FREQUENCY)
              THEN NoPitch
              ELSE PitchResult(frequency, refA4)

(***************************************************************************)
(* The calls made of detectPitch: on every buffer of at most MaxSize       *)
(* samples drawn from Samples, at each of SampleRates.                     *)
(***************************************************************************)
MaxSize == 6

\* silence, 0.01, the trimming threshold 0.2, and full scale: 1.0 and -1.0
Samples == {-100, 0, 1, 20, 100}

\* sample rates that place the lags of so short a buffer below, within and
\* above the range of detectPitch, and one that is no number
SampleRates == {100, 4000, NaN}

Buffers == UNION {[1..size -> Samples] : size \in 0..MaxSize}

InitPitch ==
    /\ Mounted
    /\ call \in {[op |-> "detectPitch", audioData |-> buffer, sampleRate |-> rate,
                  estimate |-> autoCorrelate(<<>>, rate), result |-> NoPitch] :
                    buffer \in Buffers, rate \in SampleRates}

callAutoCorrelate ==
    /\ call.op = "detectPitch"
    /\ call' = [call EXCEPT
                  !.op = "autoCorrelate",
                  !.estimate = autoCorrelate(call.audioData, call.sampleRate)]
    /\ UNCHANGED hook

returnPitch ==
    /\ call.op = "autoCorrelate"
    /\ call' = [call EXCEPT
                  !.op = "returned",
                  !.result = pitchOfEstimate(call.estimate.frequency,
                                             DEFAULT_REFERENCE_A4)]
    /\ UNCHANGED hook

NextPitch ==
    \/ callAutoCorrelate
    \/ returnPitch

SpecPitch == InitPitch /\ [][NextPitch]_vars

\* C13: for every frame whose RMS is below 0.01, the all-zero frame among
\* them, autoCorrelate returns -1 and detectPitch returns null.
SilenceGated ==
    LET frame == call.audioData
        squares == sumTo([i \in 1..Len(frame) |-> frame[i] * frame[i]], Len(frame))
    IN  (/\ call.op = "returned"
         /\ Len(frame) > 0
         /\ \/ \A i \in 1..Len(frame) : frame[i] = 0
            \/ squares < Len(frame)) =>
            /\ call.estimate.frequency = <<-1, 1>>
            /\ call.result = NoPitch

\* detectPitch has returned null for a frame of RMS 0.0063 that alternates
\* between 0.01 and 0
QuietFrameGated ==
    /\ call.op = "returned"
    /\ call.audioData = <<1, 0, 1, 0, 0>>
    /\ call.estimate.exit = "rms"
    /\ call.result = NoPitch

\* C17: for a buffer that passes the silence gate, the trimmed buffer is the
\* input without its leading and its trailing samples of absolute amplitude
\* below 0.2, and no others: it runs from the first to the last sample of
\* amplitude 0.2 or more (an edge that starts with such a sample is not
\* trimmed); and when fewer than two samples remain, autoCorrelate returns
\* no estimate.
TrimmedToLoudSamples ==
    LET frame == call.audioData
        loud == {i \in 1..Len(frame) : frame[i] >= 20 \/ frame[i] <= -20}
        first == CHOOSE i \in loud : \A j \in loud : i <= j
        last == CHOOSE i \in loud : \A j \in loud : i >= j
        remaining == IF loud = {} THEN <<>> ELSE SubSeq(frame, first, last)
    IN  (/\ call.op \in {"autoCorrelate", "returned"}
         /\ Len(frame) > 0
         /\ call.estimate.exit # "rms") =>
            /\ call.estimate.trimmedBuffer = remaining
            /\ Len(remaining) < 2 => call.estimate.frequency = <<-1, 1>>

\* C18: of every correlation sequence R that autoCorrelate computes, d is
\* the smallest lag at which R stops strictly decreasing (R[d] <= R[d + 1],
\* or the last lag when there is none), the peak chosen is the lag of the
\* maximum of R among the lags from d on, no estimate is returned when that
\* peak is lag 0 or the last lag, and the interpolation reads R only at
\* peak - 1, peak and peak + 1, all inside the trimmed buffer.
PeakIsMaximumFromDip ==
    LET R == call.estimate.correlation
        last == Len(call.estimate.trimmedBuffer) - 1
        d == call.estimate.d
        peak == call.estimate.maxPos
    IN  (/\ call.op \in {"autoCorrelate", "returned"}
         /\ call.estimate.exit \in {"peak", "T0", "estimate"}) =>
            /\ d \in 0..last
            /\ d = last \/ R[d] <= R[d + 1]
            /\ \A lag \in 0..(d - 1) : R[lag] > R[lag + 1]
            /\ peak \in d..last
            /\ \A lag \in d..last : R[peak] >= R[lag]
            /\ peak \in {0, last} => call.estimate.frequency = <<-1, 1>>
            /\ call.estimate.exit \in {"T0", "estimate"} =>
                   peak - 1 >= 0 /\ peak + 1 <= last

\* C19: a PitchResult that detectPitch returns has a frequency from 40 Hz to
\* 1200 Hz and a noteInfo; and detectPitch returns null whenever
\* autoCorrelate returned its -1 (for a low RMS, for fewer than 2 trimmed
\* samples, for a peak at a boundary, for a refined lag that is not
\* positive) and whenever the frequency is not finite.
OnlyPitchesInRange ==
    LET frequency == call.estimate.frequency
    IN  call.op = "returned" =>
            /\ call.result # NoPitch =>
                   /\ call.result = <<frequency, DEFAULT_REFERENCE_A4>>
                   /\ frequency[1] \notin {NaN, Infinity, NegInfinity}
                   /\ frequency[2] > 0
                   /\ frequency[1] >= 40 * frequency[2]
                   /\ (frequency[1] + 1199) \div 1200 <= frequency[2]
            /\ call.estimate.exit \in {"rms", "trimmed", "peak", "T0"} =>
                   frequency = <<-1, 1>> /\ call.result = NoPitch
            /\ frequency[1] \in {NaN, Infinity, NegInfinity} =>
                   call.result = NoPitch

\* detectPitch has returned a pitch found at a sample rate of 4000 Hz, where
\* a lag of less than 3.33 samples is above the range
PitchWithinRange ==
    /\ call.op = "returned"
    /\ call.sampleRate = 4000
    /\ call.result # NoPitch

=============================================================================
